---------------------------- MODULE Spec2Model ----------------------------
(***************************************************************************)
(* A model of explanations.py, the result formatters of the data linter.   *)
(*                                                                         *)
(* Every formatter is a pure function from a LintResult, a suppression set *)
(* and a maximum width to a list of strings.  The state of the model is    *)
(* one call: its arguments and, once the call has been made, what it       *)
(* returned (a list of strings) or the exception it raised.                *)
(*                                                                         *)
(* A string is a sequence of symbols.  Text that comes from the inputs is  *)
(* a sequence of one-character symbols; a fixed piece of a format template *)
(* (a preamble, " had length ") is kept as one symbol.  The duplicate-     *)
(* example table is modelled by the lengths of its strings, which is all   *)
(* its layout reads.                                                       *)
(***************************************************************************)
EXTENDS Integers, Sequences, FiniteSets, TLC

VARIABLES
    kind,       \* the detector whose formatter is called, or "pformat"
    result,     \* the LintResult argument
    suppress,   \* the suppress argument
    max_width,  \* the max_width argument
    lines,      \* NotCalled, the returned list, or the raised exception
    obj,        \* pformat's obj argument
    max_len,    \* pformat's max_len argument
    quote,      \* pformat's quote argument
    pstr        \* NotCalled or pformat's return value

vars == <<kind, result, suppress, max_width, lines, obj, max_len, quote, pstr>>

callVars == <<kind, result, suppress, max_width, lines>>
pformatVars == <<obj, max_len, quote, pstr>>

NotCalled == [state |-> "not called"]

\* a call's outcome: the value it returned, or the exception it raised
Return(v) == [state |-> "returned", value |-> v]
Raise(e) == [state |-> "raised", error |-> e]

Returned(r) == r.state = "returned"
Raised(r) == r.state = "raised"

----------------------------------------------------------------------------
(* Program constants.                                                      *)

MAX_WIDTH == 80
MAX_LEN == 30
DD_MAX_VAL_LEN == 20
DD_MAX_COLS == 30
\* len('| {} |'.format(' '))
BORDER_SZ == 5
\* len(' | ')
COLSEP_SZ == 3

FLAG_PREAMBLE == <<"Flagged features:">>
FLAG_SAMPS_PREAMBLE == <<"Flagged features (and sample values):">>
USD_PREAMBLE == <<"Flagged features and prevalence of uncommon sign(s):">>

----------------------------------------------------------------------------
(* Bounds of the model.                                                    *)

MaxStrLen == 3
MaxListLen == 2
MaxWarnings == 2
MaxSigns == 2
MaxCount == 3
MaxStats == 2
MaxCols == 4
MaxWideCols == 8
MaxEgs == 2

----------------------------------------------------------------------------
(* Sequences and strings.                                                  *)

Max(a, b) == IF a >= b THEN a ELSE b
Min(a, b) == IF a <= b THEN a ELSE b

RECURSIVE Pow10(_)
Pow10(k) == IF k <= 0 THEN 1 ELSE 10 * Pow10(k - 1)

\* s[a..b] of Python (0-based, end exclusive), clipped
Slice(s, a, b) == SubSeq(s, a + 1, Min(b, Len(s)))

RECURSIVE Concat(_)
Concat(ss) == IF ss = <<>> THEN <<>> ELSE Head(ss) \o Concat(Tail(ss))

\* sep.join(ss)
RECURSIVE Join(_, _)
Join(sep, ss) ==
    IF ss = <<>> THEN <<>>
    ELSE IF Len(ss) = 1 THEN ss[1]
    ELSE ss[1] \o sep \o Join(sep, Tail(ss))

\* s.split(sep) for a one-symbol separator
RECURSIVE SplitAcc(_, _, _)
SplitAcc(s, sep, cur) ==
    IF s = <<>> THEN <<cur>>
    ELSE IF Head(s) = sep THEN <<cur>> \o SplitAcc(Tail(s), sep, <<>>)
    ELSE SplitAcc(Tail(s), sep, Append(cur, Head(s)))

Split(s, sep) == SplitAcc(s, sep, <<>>)

\* s.strip(c)
RECURSIVE LStrip(_, _)
LStrip(s, c) == IF s # <<>> /\ Head(s) = c THEN LStrip(Tail(s), c) ELSE s

RECURSIVE RStrip(_, _)
RStrip(s, c) ==
    IF s # <<>> /\ s[Len(s)] = c THEN RStrip(SubSeq(s, 1, Len(s) - 1), c) ELSE s

Strip(s, c) == RStrip(LStrip(s, c), c)

SQ == "'"
DQ == "\""
Quotes == {SQ, DQ}

\* the strings over the alphabet cs of length at most n
RECURSIVE StrsUpTo(_, _)
StrsUpTo(cs, n) ==
    IF n = 0 THEN {<<>>}
    ELSE LET shorter == StrsUpTo(cs, n - 1)
         IN  shorter \cup {Append(s, c) : s \in shorter, c \in cs}

----------------------------------------------------------------------------
(* Number formatting: '{:.<sig>n}'.format(x) for the rational x = n / d,   *)
(* d > 0.  The presentation type n is g without a locale: x is rounded to  *)
(* sig significant digits, trailing zeros are removed, and the exponent    *)
(* form is used when the exponent is below -4 or at least sig.             *)

DigitChar(i) == <<"0", "1", "2", "3", "4", "5", "6", "7", "8", "9">>[i + 1]

RECURSIVE Digits(_)
Digits(k) == IF k < 10 THEN <<DigitChar(k)>>
             ELSE Append(Digits(k \div 10), DigitChar(k % 10))

\* k as exactly w digits, zero padded
RECURSIVE DigitsPad(_, _)
DigitsPad(k, w) == IF w = 0 THEN <<>>
                   ELSE Append(DigitsPad(k \div 10, w - 1), DigitChar(k % 10))

RoundHalfEven(n, d) ==
    LET q == n \div d
        r == n % d
    IN  IF 2 * r > d THEN q + 1
        ELSE IF 2 * r = d THEN q + (q % 2)
        ELSE q

\* the e with 10^e <= n/d < 10^(e+1), for n > 0
RECURSIVE Exp10(_, _)
Exp10(n, d) ==
    IF n >= 10 * d THEN 1 + Exp10(n, 10 * d)
    ELSE IF n < d THEN Exp10(10 * n, d) - 1
    ELSE 0

SigFmtPos(n, d, sig) ==
    LET e0 == Exp10(n, d)
        sh == sig - 1 - e0
        q0 == IF sh >= 0 THEN RoundHalfEven(n * Pow10(sh), d)
              ELSE RoundHalfEven(n, d * Pow10(-sh))
        carry == q0 = Pow10(sig)
        q == IF carry THEN Pow10(sig - 1) ELSE q0
        e == IF carry THEN e0 + 1 ELSE e0
        dec == sig - 1 - e
        frac == RStrip(DigitsPad(q % Pow10(dec), dec), "0")
        mant == RStrip(DigitsPad(q % Pow10(sig - 1), sig - 1), "0")
        ae == IF e < 0 THEN -e ELSE e
    IN  IF e < -4 \/ e >= sig
        THEN <<DigitChar(q \div Pow10(sig - 1))>>
             \o (IF mant = <<>> THEN <<>> ELSE <<".">> \o mant)
             \o <<"e", IF e < 0 THEN "-" ELSE "+">> \o DigitsPad(ae, Max(2, Len(Digits(ae))))
        ELSE Digits(q \div Pow10(dec))
             \o (IF frac = <<>> THEN <<>> ELSE <<".">> \o frac)

SigFmt(n, d, sig) ==
    IF n = 0 THEN <<"0">>
    ELSE IF n < 0 THEN <<"-">> \o SigFmtPos(-n, d, sig)
    ELSE SigFmtPos(n, d, sig)

\* PCT_FMT = '{:.3n}%'
PCT_FMT(n, d) == SigFmt(n, d, 3) \o <<"%">>

----------------------------------------------------------------------------
(* pformat and the library functions it calls.                             *)
(*                                                                         *)
(* An object is a str [t |-> "str", v |-> chars], a Python 2 unicode       *)
(* [t |-> "unicode", v |-> chars], a float [t |-> "num", n |-> n, d |-> d] *)
(* (the number n / d) or a list [t |-> "list", items |-> objects]; a list  *)
(* of more than one object holds strings.                                  *)

Str(s) == [t |-> "str", v |-> s]
Uni(s) == [t |-> "unicode", v |-> s]
Num(n, d) == [t |-> "num", n |-> n, d |-> d]
List(os) == [t |-> "list", items |-> os]

\* repr of a str over an alphabet without the double quote and the backslash
Repr(s) == IF \E i \in 1..Len(s) : s[i] = SQ
           THEN <<DQ>> \o s \o <<DQ>>
           ELSE <<SQ>> \o s \o <<SQ>>

\* pprint.pformat of a str or a unicode
PPrintScalar(o) ==
    IF o.t = "unicode" THEN <<"u">> \o Repr(o.v) ELSE Repr(o.v)

\* pprint.pformat of an object whose repr fits one line
PPrint(o) ==
    IF o.t = "list"
    THEN <<"[">>
         \o Join(<<",", " ">>, [i \in 1..Len(o.items) |-> PPrintScalar(o.items[i])])
         \o <<"]">>
    ELSE PPrintScalar(o)

\* re.sub(r'u(["\'])', r'\1', s)
RECURSIVE StripU(_)
StripU(s) ==
    IF s = <<>> THEN <<>>
    ELSE IF Len(s) >= 2 /\ s[1] = "u" /\ s[2] \in Quotes
    THEN <<s[2]>> \o StripU(SubSeq(s, 3, Len(s)))
    ELSE <<s[1]>> \o StripU(Tail(s))

\* pydoc.cram(text, maxlen)
cram(text, maxlen) ==
    IF Len(text) > maxlen
    THEN LET pre == Max(0, (maxlen - 3) \div 2)
             post == Max(0, maxlen - 3 - pre)
         IN  Slice(text, 0, pre) \o <<".", ".", ".">>
             \o Slice(text, Len(text) - post, Len(text))
    ELSE text

\* pformat without the unwrapping of a single-element sequence
pformat_keeps_list(o, maxlen, q) ==
    LET p0 == IF o.t = "num" THEN SigFmt(o.n, o.d, 4) ELSE PPrint(o)
        p1 == StripU(p0)
        p2 == IF ~q THEN Strip(Strip(p1, SQ), DQ) ELSE p1
    IN  cram(p2, maxlen)

pformat(o, maxlen, q) ==
    LET o1 == IF o.t = "list" /\ Len(o.items) = 1 THEN o.items[1] ELSE o
        p0 == IF o1.t = "num" THEN SigFmt(o1.n, o1.d, 4) ELSE PPrint(o1)
        p1 == StripU(p0)
        p2 == IF ~q THEN Strip(Strip(p1, SQ), DQ) ELSE p1
    IN  cram(p2, maxlen)

----------------------------------------------------------------------------
(* The formatters of the warning-per-line detectors.                       *)
(*                                                                         *)
(* A LintResult is [warnings |-> strings, lint_samples |-> samples]; a     *)
(* warning is a str object; a sample is [strings |-> str objects,          *)
(* nums |-> integers, stats |-> stat records].                             *)

Sample(strings, nums, stats) == [strings |-> strings, nums |-> nums, stats |-> stats]

LintResult(warnings, samples) == [warnings |-> warnings, lint_samples |-> samples]

\* zip(a, b)
Zip(a, b) == [i \in 1..Min(Len(a), Len(b)) |-> <<a[i], b[i]>>]

\* an iteration that ended in continue
Skipped == [state |-> "skipped"]

\* the first exception of a loop whose iterations end as outs, or else pre
\* and the lines the iterations have appended to it
Gather(pre, outs) ==
    IF \E i \in 1..Len(outs) : Raised(outs[i])
    THEN outs[CHOOSE i \in 1..Len(outs) :
                  Raised(outs[i]) /\ \A j \in 1..(i - 1) : ~Raised(outs[j])]
    ELSE LET made == SelectSeq(outs, Returned)
         IN  Return(pre \o [i \in 1..Len(made) |-> made[i].value])

\* LI = '* {}'
LI(x) == <<"*", " ">> \o x
\* LI_SAMP = LI + ': {}'
LI_SAMP(x, y) == LI(x) \o <<":", " ">> \o y

NumObj(x) == Num(x, 1)

_format_warning_sample_pair(warning, sample, quote_vals) ==
    LET wstr == pformat(warning, MAX_LEN, FALSE)
        samp_vals == IF sample.strings # <<>> THEN sample.strings
                     ELSE [i \in 1..Len(sample.nums) |-> NumObj(sample.nums[i])]
        samp_str == Join(<<",", " ">>,
                         [i \in 1..Len(samp_vals) |->
                             pformat(samp_vals[i], MAX_LEN, quote_vals)])
    IN  LI_SAMP(wstr, IF samp_vals # <<>> THEN samp_str ELSE wstr)

\* the pairs of zip(warnings, samples) whose warning is not suppressed
Unsuppressed(warnings, samples, suppressed) ==
    LET Keep(p) == p[1] \notin suppressed
    IN  SelectSeq(Zip(warnings, samples), Keep)

\* the generic formatter with the bullets of the bare warnings in reverse
\* order
_format_warnings_reversed(res, suppressed, width) ==
    IF res.lint_samples # <<>>
    THEN LET pairs == Unsuppressed(res.warnings, res.lint_samples, suppressed)
         IN  Return(<<FLAG_SAMPS_PREAMBLE>>
                    \o [i \in 1..Len(pairs) |->
                           _format_warning_sample_pair(pairs[i][1], pairs[i][2], TRUE)])
    ELSE LET n == Len(res.warnings)
             wstrs == [i \in 1..n |->
                          LI(pformat(res.warnings[n + 1 - i], MAX_LEN, TRUE))]
         IN  Return(<<FLAG_PREAMBLE, Join(<<"\n">>, wstrs)>>)

_format_warnings(res, suppressed, width) ==
    IF res.lint_samples # <<>>
    THEN LET pairs == Unsuppressed(res.warnings, res.lint_samples, suppressed)
         IN  Return(<<FLAG_SAMPS_PREAMBLE>>
                    \o [i \in 1..Len(pairs) |->
                           _format_warning_sample_pair(pairs[i][1], pairs[i][2], TRUE)])
    ELSE LET wstrs == [i \in 1..Len(res.warnings) |->
                          LI(pformat(res.warnings[i], MAX_LEN, TRUE))]
         IN  Return(<<FLAG_PREAMBLE, Join(<<"\n">>, wstrs)>>)

_format_warnings_de(res, suppressed, width) ==
    LET pairs == Unsuppressed(res.warnings, res.lint_samples, suppressed)
    IN  Return(<<FLAG_SAMPS_PREAMBLE>>
               \o [i \in 1..Len(pairs) |->
                      _format_warning_sample_pair(pairs[i][1], pairs[i][2], FALSE)])

_format_warnings_iaf(res, suppressed, width) ==
    LET wstrs == [i \in 1..Len(res.warnings) |->
                     LI(pformat(res.warnings[i], MAX_LEN, FALSE))]
    IN  Return(<<FLAG_PREAMBLE, Join(<<"\n">>, wstrs)>>)

\* a length bucket of the list-length detector
Bucket(count, min, max) == [count |-> count, min |-> min, max |-> max]

\* ' to '.join(map('{:.0f}'.format, sorted({bucket.min, bucket.max})))
BucketBounds(bucket) ==
    IF bucket.min = bucket.max THEN Digits(bucket.min)
    ELSE Digits(Min(bucket.min, bucket.max)) \o <<" to ">>
         \o Digits(Max(bucket.min, bucket.max))

\* ULL_WFMT = LI + ': {} had length {} but {} had {}.', which takes five
\* arguments and ignores any more
ULL_WFMT(args) ==
    IF Len(args) < 5 THEN Raise("IndexError")
    ELSE Return(LI(args[1]) \o <<":", " ">> \o args[2] \o <<" had length ">> \o args[3]
                \o <<" but ">> \o args[4] \o <<" had ">> \o args[5] \o <<".">>)

\* one iteration of the loop of _format_warnings_llo
LloLine(warning, sample) ==
    IF sample.nums = <<>> THEN Raise("IndexError")
    ELSE LET n_egs == sample.nums[1]
         IN  IF sample.stats # <<>> /\ n_egs = 0 THEN Raise("ZeroDivisionError")
             ELSE LET pct_bounds ==
                          [i \in 1..Len(sample.stats) |->
                              <<PCT_FMT(sample.stats[i].count * 100, n_egs),
                                BucketBounds(sample.stats[i])>>]
                  IN  ULL_WFMT(<<pformat(warning, MAX_LEN, FALSE)>> \o Concat(pct_bounds))

_format_warnings_llo(res, suppressed, width) ==
    LET pairs == Unsuppressed(res.warnings, res.lint_samples, suppressed)
    IN  Gather(<<FLAG_PREAMBLE>>,
               [i \in 1..Len(pairs) |-> LloLine(pairs[i][1], pairs[i][2])])

\* USD_WFMT = '{} occurred {} of the time'
USD_WFMT(sign_str, pct_str) ==
    sign_str \o <<" occurred ">> \o pct_str \o <<" of the time">>

LT_ONE_PCT == <<"<", " ", "1", "%">>

\* the share of a sign with the comparison of line 239 made strict
SignShare_strict(sign_count, num_unique_vals) ==
    IF sign_count * 100 > num_unique_vals
    THEN PCT_FMT(sign_count * 100, num_unique_vals)
    ELSE LT_ONE_PCT

\* pct_str of lines 238-242, for num_unique_vals # 0
SignShare(sign_count, num_unique_vals) ==
    IF sign_count * 100 >= num_unique_vals
    THEN PCT_FMT(sign_count * 100, num_unique_vals)
    ELSE LT_ONE_PCT

\* one iteration of the loop of _format_warnings_dus
DusLine(warning, sample) ==
    IF sample.nums = <<>> THEN Raise("IndexError")
    ELSE LET num_unique_vals == sample.nums[1]
             signs == Zip(sample.strings, Tail(sample.nums))
         IN  IF signs # <<>> /\ num_unique_vals = 0 THEN Raise("ZeroDivisionError")
             ELSE LET wstrs == [i \in 1..Len(signs) |->
                                   USD_WFMT(signs[i][1].v,
                                            SignShare(signs[i][2], num_unique_vals))]
                  IN  Return(LI_SAMP(pformat(warning, MAX_LEN, FALSE),
                                     Join(<<",", " ">>, wstrs)))

_format_warnings_dus(res, suppressed, width) ==
    LET pairs == Unsuppressed(res.warnings, res.lint_samples, suppressed)
    IN  Gather(<<USD_PREAMBLE>>,
               [i \in 1..Len(pairs) |-> DusLine(pairs[i][1], pairs[i][2])])

\* the statistics of a feature; a value is the rational [n |-> n, d |-> d]
Stat(mean, std_dev, min, max) ==
    [mean |-> mean, std_dev |-> std_dev, min |-> min, max |-> max]

\* getattr(stats, name)
GetAttr(stats, name) ==
    IF Len(name) = 1 /\ name[1] \in DOMAIN stats THEN Return(stats[name[1]])
    ELSE Raise("AttributeError")

\* NFNR_PREAMBLE
NFNR_PREAMBLE(mean, std_dev) ==
    <<"A 'typical' numeric feature in the dataset has mean ">>
    \o SigFmt(mean.n, mean.d, 3) \o <<" and std dev ">>
    \o SigFmt(std_dev.n, std_dev.d, 5) \o <<" but">>

\* NFNR_WFMT = LI + ' had {}'
NFNR_WFMT(x, y) == LI(x) \o <<" had ">> \o y

\* NFNR_STATFMT = '{} = {:.5n}'
NFNR_STATFMT(name, value) == name \o <<" = ">> \o SigFmt(value.n, value.d, 5)

\* lines 154-161: the rest of an iteration once the identifier is split
NfnrFlagged(warned_feature, warned_stats, sample, suppressed) ==
    IF Str(warned_feature) \in suppressed THEN Skipped
    ELSE IF sample.stats = <<>> THEN Raise("IndexError")
    ELSE LET stats == sample.stats[1]
             vals == [i \in 1..Len(warned_stats) |-> GetAttr(stats, warned_stats[i])]
         IN  IF \E i \in 1..Len(vals) : Raised(vals[i])
             THEN Raise("AttributeError")
             ELSE Return(NFNR_WFMT(
                      pformat(Str(warned_feature), MAX_LEN, FALSE),
                      Join(<<",", " ">>,
                           [i \in 1..Len(vals) |->
                               NFNR_STATFMT(warned_stats[i], vals[i].value)])))

\* an iteration that reads an identifier it cannot split as flagging the mean
NfnrLine_default_stat(warning, sample, suppressed) ==
    LET parts == Split(warning.v, ":")
    IN  IF Len(parts) # 2
        THEN NfnrFlagged(parts[1], <<<<"mean">>>>, sample, suppressed)
        ELSE NfnrFlagged(parts[1], Split(parts[2], ","), sample, suppressed)

\* one iteration of the loop of _format_warnings_nfnr; the unpacking of
\* warning.split(':') raises unless there are two parts
NfnrLine(warning, sample, suppressed) ==
    LET parts == Split(warning.v, ":")
    IN  IF Len(parts) # 2 THEN Raise("ValueError")
        ELSE NfnrFlagged(parts[1], Split(parts[2], ","), sample, suppressed)

\* the formatter with each warning paired with the sample at its own index
_format_warnings_nfnr_same_index(res, suppressed, width) ==
    IF res.lint_samples = <<>> \/ res.lint_samples[1].stats = <<>>
    THEN Raise("IndexError")
    ELSE LET ds_stats == res.lint_samples[1].stats[1]
             pairs == Zip(res.warnings, res.lint_samples)
         IN  Gather(<<NFNR_PREAMBLE(ds_stats.mean, ds_stats.std_dev)>>,
                    [i \in 1..Len(pairs) |->
                        NfnrLine(pairs[i][1], pairs[i][2], suppressed)])

_format_warnings_nfnr(res, suppressed, width) ==
    IF res.lint_samples = <<>> \/ res.lint_samples[1].stats = <<>>
    THEN Raise("IndexError")
    ELSE LET ds_stats == res.lint_samples[1].stats[1]
             pairs == Zip(res.warnings, Tail(res.lint_samples))
         IN  Gather(<<NFNR_PREAMBLE(ds_stats.mean, ds_stats.std_dev)>>,
                    [i \in 1..Len(pairs) |->
                        NfnrLine(pairs[i][1], pairs[i][2], suppressed)])

----------------------------------------------------------------------------
(* The duplicate-example formatter.                                        *)
(*                                                                         *)
(* The table is modelled by lengths.  A feature name is [rank |-> its      *)
(* place in the sorted order of the names, len |-> its length].  A feature *)
(* is [kind |-> the field that is set or "none", printed |-> the length of *)
(* the text pformat makes of its value list before cramming it, 0 for an   *)
(* empty value list].  A text is [of |-> what it prints, len |-> its        *)
(* length], so that texts of different values differ.  A rendered line is  *)
(* [rule |-> whether it is a horizontal rule, len |-> its length,          *)
(* cells |-> the texts of its cells]; the empty line that '\n\n' puts      *)
(* between two column groups is Blank.                                     *)

Name(rank, len) == [rank |-> rank, len |-> len]
Feature(k, printed) == [kind |-> k, printed |-> printed]
Example(features) == [features |-> features]
DupSample(examples) == [examples |-> examples]

Text(of, len) == [of |-> of, len |-> len]
ValueText(printed, len) == Text([printed |-> printed], len)
EmptyText == ValueText(0, 0)
Line(rule, len, cells) == [rule |-> rule, len |-> len, cells |-> cells]
Blank == Line(FALSE, 0, <<>>)

\* len(pydoc.cram(text, maxlen)) for a text of length n
CramLen(n, maxlen) ==
    IF n > maxlen
    THEN LET pre == Max(0, (maxlen - 3) \div 2)
             post == Max(0, maxlen - 3 - pre)
         IN  pre + 3 + post
    ELSE n

\* len(text.center(width))
CenterLen(n, width) == Max(n, width)

RECURSIVE Sum(_)
Sum(ns) == IF ns = <<>> THEN 0 ELSE Head(ns) + Sum(Tail(ns))

\* len(COLSEP.join(texts)) for texts of the lengths ns
JoinLen(ns) == IF ns = <<>> THEN 0 ELSE Sum(ns) + COLSEP_SZ * (Len(ns) - 1)

\* sorted(names)
Sorted(names) ==
    [i \in 1..Cardinality(names) |->
        CHOOSE c \in names : Cardinality({d \in names : d.rank < c.rank}) = i - 1]

\* lines 175-188: the text of the cell of example eg in column col
CellText(eg, col) ==
    IF col \notin DOMAIN eg.features THEN EmptyText
    ELSE LET feature == eg.features[col]
         IN  IF feature.kind = "none" THEN EmptyText
             ELSE IF feature.printed = 0 THEN EmptyText
             ELSE ValueText(feature.printed, CramLen(feature.printed, DD_MAX_VAL_LEN))

\* col_vals after the loop of lines 173-189
ColVals(egs, cols) ==
    [c \in {cols[k] : k \in 1..Len(cols)} |->
        [j \in 1..Len(egs) |-> CellText(egs[j], c)]]

RECURSIVE MaxOf(_)
MaxOf(ns) == IF Len(ns) = 1 THEN ns[1] ELSE Max(ns[1], MaxOf(Tail(ns)))

\* col_widths after the loop of lines 173-189; an empty cell leaves the
\* width as it is
ColWidths(egs, cols) ==
    [c \in {cols[k] : k \in 1..Len(cols)} |->
        MaxOf(<<Min(c.len, DD_MAX_VAL_LEN - BORDER_SZ)>>
              \o [j \in 1..Len(egs) |-> Min(CellText(egs[j], c).len, DD_MAX_VAL_LEN)])]

\* the loop of lines 193-200 from the column cols[1] on
RECURSIVE Pack(_, _, _, _, _)
Pack(cols, col_widths, width, col_groups, tot_width) ==
    IF cols = <<>> THEN col_groups
    ELSE LET col == Head(cols)
             colwidth == col_widths[col] + BORDER_SZ
         IN  IF tot_width + colwidth >= width
             THEN Pack(Tail(cols), col_widths, width, Append(col_groups, <<col>>), 0)
             ELSE Pack(Tail(cols), col_widths, width,
                       [col_groups EXCEPT ![Len(col_groups)] = Append(@, col)],
                       tot_width + colwidth)

\* col_groups of lines 191-200
ColGroups(cols, col_widths, width) == Pack(cols, col_widths, width, <<<<>>>>, 0)

\* len(borders.format('')) for the i-th of n column groups, lines 204-209
BordersLen(i, n) ==
    IF i = 1 THEN (IF n = 1 THEN 4 ELSE 3)
    ELSE IF i < n THEN 2
    ELSE 3

\* the data rows of a column group without the row of the last example
DataRows_drops_last(egs, col_group, col_vals, col_widths, borders) ==
    [j \in 1..(Len(egs) - 1) |->
        Line(FALSE,
             borders + JoinLen([k \in 1..Len(col_group) |->
                                   CenterLen(col_vals[col_group[k]][j].len,
                                             col_widths[col_group[k]])]),
             [k \in 1..Len(col_group) |-> col_vals[col_group[k]][j]])]

\* the data rows of a column group, lines 216-219
DataRows(egs, col_group, col_vals, col_widths, borders) ==
    [j \in 1..Len(egs) |->
        Line(FALSE,
             borders + JoinLen([k \in 1..Len(col_group) |->
                                   CenterLen(col_vals[col_group[k]][j].len,
                                             col_widths[col_group[k]])]),
             [k \in 1..Len(col_group) |-> col_vals[col_group[k]][j]])]

\* cg_lines of a column group, lines 211-220
GroupLines(egs, col_group, col_vals, col_widths, borders) ==
    LET heading ==
            Line(FALSE,
                 borders + JoinLen([k \in 1..Len(col_group) |->
                                       CenterLen(CramLen(col_group[k].len,
                                                         col_widths[col_group[k]]),
                                                 col_widths[col_group[k]])]),
                 [k \in 1..Len(col_group) |->
                     Text(col_group[k],
                          CramLen(col_group[k].len, col_widths[col_group[k]]))])
        hrule == Line(TRUE, heading.len, <<>>)
    IN  <<hrule, heading, hrule>>
        \o DataRows(egs, col_group, col_vals, col_widths, borders)
        \o <<hrule>>

\* '\n\n'.join of the column groups, each the '\n'.join of its lines
RECURSIVE JoinGroups(_)
JoinGroups(groups) ==
    IF groups = <<>> THEN <<>>
    ELSE IF Len(groups) = 1 THEN groups[1]
    ELSE groups[1] \o <<Blank>> \o JoinGroups(Tail(groups))

\* DD_PREAMBLE
DD_PREAMBLE(found, shown) ==
    <<"Found ">> \o found \o <<" exact duplicate examples, ">> \o Digits(shown)
    \o <<" of which are shown below.">>

Take(s, n) == SubSeq(s, 1, Min(n, Len(s)))

\* the second entry of the returned list is the table, as its lines
_format_warnings_dd(res, suppressed, width) ==
    LET egs == res.lint_samples[1].examples
        cols == Take(Sorted(UNION {DOMAIN egs[j].features : j \in 1..Len(egs)}),
                     DD_MAX_COLS)
        col_vals == ColVals(egs, cols)
        col_widths == ColWidths(egs, cols)
        col_groups == ColGroups(cols, col_widths, width)
        col_group_strs ==
            [i \in 1..Len(col_groups) |->
                GroupLines(egs, col_groups[i], col_vals, col_widths,
                           BordersLen(i, Len(col_groups)))]
    IN  Return(<<DD_PREAMBLE(res.warnings[1].v, Len(egs)), JoinGroups(col_group_strs)>>)

----------------------------------------------------------------------------
(* SpecPformat: one call of pformat on an object drawn from PfObjs.        *)

PfChars == {"5", "u", SQ}
LongStr == [i \in 1..(MAX_LEN + 1) |-> "5"]
PfStrs == StrsUpTo(PfChars, MaxStrLen) \cup {LongStr}
PfStrings == {Str(s) : s \in PfStrs} \cup {Uni(s) : s \in PfStrs}
PfNums == {Num(314159, 100000), Num(5, 1), Num(0, 1), Num(-5, 2)}
PfScalars == PfStrings \cup PfNums
PfListElems == {Str(<<"5">>), Uni(<<"a">>)}
PfLists == {List(<<x>>) : x \in PfScalars}
           \cup {List(os) : os \in UNION {[1..n -> PfListElems] :
                                          n \in {0} \cup 2..MaxListLen}}
PfObjs == PfScalars \cup PfLists
PfMaxLens == {MAX_LEN, 4, 2}

NoCall ==
    /\ kind = "pformat"
    /\ result = LintResult(<<>>, <<>>)
    /\ suppress = {}
    /\ max_width = MAX_WIDTH
    /\ lines = NotCalled

PformatInit ==
    /\ NoCall
    /\ obj \in PfObjs
    /\ max_len \in PfMaxLens
    /\ quote \in BOOLEAN
    /\ pstr = NotCalled

Pformat ==
    /\ pstr = NotCalled
    /\ pstr' = Return(pformat(obj, max_len, quote))
    /\ UNCHANGED <<obj, max_len, quote, callVars>>

PformatNext == Pformat

SpecPformat == PformatInit /\ [][PformatNext]_vars

IsSingleString(o) ==
    o.t = "list" /\ Len(o.items) = 1 /\ o.items[1].t \in {"str", "unicode"}

Plain(s) == \A i \in 1..Len(s) : s[i] \notin {"u", SQ, DQ}

----------------------------------------------------------------------------
(* SpecWarn: one call of the generic, the enumerated-value or the          *)
(* int-as-float formatter.                                                 *)

\* the sequences over S of length at most n
SeqsUpTo(S, n) == UNION {[1..k -> S] : k \in 0..n}

NoPformat ==
    /\ obj = Str(<<>>)
    /\ max_len = MAX_LEN
    /\ quote = TRUE
    /\ pstr = NotCalled

WarnNames == {Str(<<"a">>), Str(<<"b">>)}
WarnSamples ==
    { Sample(<<>>, <<>>, <<>>),
      Sample(<<Str(<<"x">>)>>, <<>>, <<>>),
      Sample(<<Str(<<"x">>), Str(<<"y">>)>>, <<7>>, <<>>),
      Sample(<<>>, <<5, 12345>>, <<>>) }
WarnKinds == {"LintDetector", "EnumDetector", "IntAsFloatDetector"}

WarnInit ==
    /\ NoPformat
    /\ kind \in WarnKinds
    /\ \E ws \in SeqsUpTo(WarnNames, MaxWarnings),
          ss \in SeqsUpTo(WarnSamples, MaxWarnings) :
           result = LintResult(ws, ss)
    /\ suppress \in SUBSET WarnNames
    /\ max_width = MAX_WIDTH
    /\ lines = NotCalled

FormatWarnings ==
    /\ kind = "LintDetector"
    /\ lines = NotCalled
    /\ lines' = _format_warnings(result, suppress, max_width)
    /\ UNCHANGED <<kind, result, suppress, max_width, pformatVars>>

FormatWarningsDe ==
    /\ kind = "EnumDetector"
    /\ lines = NotCalled
    /\ lines' = _format_warnings_de(result, suppress, max_width)
    /\ UNCHANGED <<kind, result, suppress, max_width, pformatVars>>

FormatWarningsIaf ==
    /\ kind = "IntAsFloatDetector"
    /\ lines = NotCalled
    /\ lines' = _format_warnings_iaf(result, suppress, max_width)
    /\ UNCHANGED <<kind, result, suppress, max_width, pformatVars>>

WarnNext == FormatWarnings \/ FormatWarningsDe \/ FormatWarningsIaf

SpecWarn == WarnInit /\ [][WarnNext]_vars

\* the bullets of the entries after the preamble, a block counting one entry
\* per line
BodyEntries(ls) ==
    LET NonEmpty(e) == e # <<>>
    IN  SelectSeq(Concat([i \in 1..(Len(ls) - 1) |-> Split(ls[i + 1], "\n")]), NonEmpty)

\* the warning a bullet opens with: the text between '* ' and the first ':'
\* or ' had ', its quotes removed
RECURSIVE UpTo(_, _)
UpTo(s, stops) ==
    IF s = <<>> \/ Head(s) \in stops THEN <<>> ELSE <<Head(s)>> \o UpTo(Tail(s), stops)

EntryName(e) == Strip(Strip(UpTo(SubSeq(e, 3, Len(e)), {":", " had "}), SQ), DQ)

WarningPerLineKinds ==
    {"LintDetector", "EnumDetector", "UncommonListLengthDetector",
     "NonNormalNumericFeatureDetector", "UncommonSignDetector",
     "TailedDistributionDetector", "IntAsFloatDetector"}

(* C1 as stated: a warning-per-line formatter returns no body entry for a  *)
(* warning identifier that is in the suppression set; when every warning   *)
(* is suppressed the output has no body entries at all.                    *)
C1_SuppressedOmitted ==
    (kind \in WarningPerLineKinds /\ Returned(lines))
        => LET entries == BodyEntries(lines.value)
           IN  /\ \A i \in 1..Len(entries) :
                      \A w \in suppress : EntryName(entries[i]) # w.v
               /\ (\A i \in 1..Len(result.warnings) : result.warnings[i] \in suppress)
                      => entries = <<>>

(* C6: the generic formatter, given no samples and an empty suppression    *)
(* set, returns the preamble and one block whose lines are one bullet per  *)
(* warning, in the order of result.warnings.                               *)
C6_BulletPerWarning ==
    (kind = "LintDetector" /\ Returned(lines)
     /\ result.lint_samples = <<>> /\ suppress = {})
        => LET ws == result.warnings
               ls == lines.value
           IN  /\ Len(ls) = 2
               /\ ls[1] = FLAG_PREAMBLE
               /\ Len(BodyEntries(ls)) = Len(ws)
               /\ ws = <<>> => ls[2] = <<>>
               /\ ws # <<>> =>
                      LET bullets == Split(ls[2], "\n")
                      IN  /\ Len(bullets) = Len(ws)
                          /\ \A i \in 1..Len(ws) :
                                 bullets[i] = <<"*", " ", SQ>> \o ws[i].v \o <<SQ>>

C6_Witness ==
    /\ kind = "LintDetector"
    /\ result = LintResult(<<Str(<<"a">>), Str(<<"b">>)>>, <<>>)
    /\ suppress = {}
    /\ lines = Return(<<FLAG_PREAMBLE,
                        <<"*", " ", SQ, "a", SQ, "\n", "*", " ", SQ, "b", SQ>> >>)

----------------------------------------------------------------------------
(* SpecPct: one call of the list-length-outlier or the uncommon-sign       *)
(* formatter.  A result holds one warning with any sample of the detector, *)
(* or up to MaxWarnings warnings with samples of a smaller set.            *)

Totals == {0, 3, 100, 200}
Signs == <<Str(<<"-">>), Str(<<"0">>), Str(<<"+">>), Str(<<"n", "a", "n">>)>>

DusSamples ==
    {Sample(SubSeq(Signs, 1, k), nums, <<>>) :
        k \in 0..MaxSigns,
        nums \in {<<>>} \cup {<<n>> \o cs : n \in Totals,
                                            cs \in SeqsUpTo(0..MaxCount, MaxSigns)}}
DusBasicSamples ==
    { Sample(<<Signs[1]>>, <<>>, <<>>),
      Sample(<<Signs[1]>>, <<0, 1>>, <<>>),
      Sample(<<Signs[1]>>, <<200, 1>>, <<>>),
      Sample(<<Signs[1], Signs[2]>>, <<100, 1, 50>>, <<>>) }

Buckets == {Bucket(1, 2, 2), Bucket(99, 3, 5), Bucket(5, 6, 7)}
LloSamples ==
    {Sample(<<>>, nums, stats) :
        nums \in {<<>>} \cup {<<n>> : n \in Totals},
        stats \in SeqsUpTo(Buckets, MaxSigns + 1)}
LloBasicSamples ==
    { Sample(<<>>, <<>>, <<Bucket(1, 2, 2), Bucket(99, 3, 5)>>),
      Sample(<<>>, <<0>>, <<Bucket(1, 2, 2), Bucket(99, 3, 5)>>),
      Sample(<<>>, <<100>>, <<Bucket(1, 2, 2), Bucket(99, 3, 5)>>),
      Sample(<<>>, <<100>>, <<>>) }

\* the results of one warning with a sample of rich, or of several warnings
\* with samples of basic
ResultsOver(names, rich, basic) ==
    {LintResult(<<w>>, <<x>>) : w \in names, x \in rich}
    \cup {LintResult(ws, xs) : ws \in SeqsUpTo(names, MaxWarnings),
                               xs \in SeqsUpTo(basic, MaxWarnings)}

PctKinds == {"UncommonListLengthDetector", "UncommonSignDetector"}

PctInit ==
    /\ NoPformat
    /\ kind \in PctKinds
    /\ result \in IF kind = "UncommonSignDetector"
                  THEN ResultsOver(WarnNames, DusSamples, DusBasicSamples)
                  ELSE ResultsOver(WarnNames, LloSamples, LloBasicSamples)
    /\ suppress \in SUBSET WarnNames
    /\ max_width = MAX_WIDTH
    /\ lines = NotCalled

FormatWarningsLlo ==
    /\ kind = "UncommonListLengthDetector"
    /\ lines = NotCalled
    /\ lines' = _format_warnings_llo(result, suppress, max_width)
    /\ UNCHANGED <<kind, result, suppress, max_width, pformatVars>>

FormatWarningsDus ==
    /\ kind = "UncommonSignDetector"
    /\ lines = NotCalled
    /\ lines' = _format_warnings_dus(result, suppress, max_width)
    /\ UNCHANGED <<kind, result, suppress, max_width, pformatVars>>

PctNext == FormatWarningsLlo \/ FormatWarningsDus

SpecPct == PctInit /\ [][PctNext]_vars

\* the indices of the warnings that have a sample and are not in suppress
RECURSIVE KeptFrom(_)
KeptFrom(i) ==
    IF i > Min(Len(result.warnings), Len(result.lint_samples)) THEN <<>>
    ELSE (IF result.warnings[i] \in suppress THEN <<>> ELSE <<i>>) \o KeptFrom(i + 1)

Kept == KeptFrom(1)

\* the shares a line of the uncommon-sign formatter reports: the text
\* between each ' occurred ' and the ' of the time' after it
Shares(line) ==
    LET parts == Split(line, " occurred ")
    IN  [k \in 1..(Len(parts) - 1) |-> UpTo(parts[k + 1], {" of the time"})]

IsDigit(c) == c \in {"0", "1", "2", "3", "4", "5", "6", "7", "8", "9"}

(* C4: in the uncommon-sign formatter, the share of a sign with count c    *)
(* out of a non-zero total n reads "< 1%" exactly when c/n*100 < 1 and is  *)
(* a number followed by % otherwise; 0.5% reads "< 1%" and 1.0% reads      *)
(* "1%".                                                                   *)
C4_ShareRendering ==
    (kind = "UncommonSignDetector" /\ Returned(lines))
        => \A j \in 1..Len(Kept) :
               LET sample == result.lint_samples[Kept[j]]
                   n == sample.nums[1]
                   shares == Shares(lines.value[j + 1])
               IN  /\ Len(shares) = Min(Len(sample.strings), Len(sample.nums) - 1)
                   /\ \A k \in 1..Len(shares) :
                          LET c == sample.nums[k + 1]
                              share == shares[k]
                          IN  /\ (share = LT_ONE_PCT) <=> (c * 100 < n)
                              /\ c * 100 >= n => /\ IsDigit(share[1])
                                                 /\ share[Len(share)] = "%"
                              /\ c * 200 = n => share = LT_ONE_PCT
                              /\ c * 100 = n => share = <<"1", "%">>

C4_Witness ==
    /\ kind = "UncommonSignDetector"
    /\ result = LintResult(<<Str(<<"a">>)>>,
                           <<Sample(<<Signs[1], Signs[2]>>, <<200, 1, 2>>, <<>>)>>)
    /\ suppress = {}
    /\ Returned(lines)
    /\ Shares(lines.value[2]) = <<LT_ONE_PCT, <<"1", "%">> >>

\* the non-suppressed samples of the result whose total is zero
ZeroTotal(i) ==
    LET sample == result.lint_samples[i]
    IN  sample.nums # <<>> /\ sample.nums[1] = 0

\* what the formatter needs of a sample besides a non-zero total
WellShaped(i) ==
    LET sample == result.lint_samples[i]
    IN  /\ sample.nums # <<>>
        /\ kind = "UncommonListLengthDetector" => Len(sample.stats) >= 2

(* C8 as stated: the list-length-outlier and uncommon-sign formatters      *)
(* guard a zero denominator: with a sample whose total is 0 the call does  *)
(* not fail with a division error, and the lines of the other warnings are *)
(* still returned.                                                         *)
C8_ZeroTotalGuarded ==
    (kind \in PctKinds /\ lines # NotCalled)
        => /\ lines # Raise("ZeroDivisionError")
           /\ (\A j \in 1..Len(Kept) : WellShaped(Kept[j]))
                  => /\ Returned(lines)
                     /\ \A j \in 1..Len(Kept) :
                            ~ZeroTotal(Kept[j])
                                => \E l \in 2..Len(lines.value) :
                                       EntryName(lines.value[l])
                                           = result.warnings[Kept[j]].v

----------------------------------------------------------------------------
(* SpecNfnr: one call of the non-normal-numeric formatter.  A statistic    *)
(* name of a warning identifier is one symbol.                             *)

Features == {<<"h">>, <<"w">>, <<>>}
StatNames == {<<"mean">>, <<"std_dev">>, <<"bogus">>, <<>>}
Suffixes == {Join(<<",">>, names) : names \in SeqsUpTo(StatNames, MaxStats)}
Tails == {<<>>, <<":", "mean", ":", "max">>} \cup {<<":">> \o x : x \in Suffixes}
Identifiers == {Str(f \o t) : f \in Features, t \in Tails}
BasicIdentifiers ==
    { Str(<<"h", ":", "mean", ",", "std_dev">>), Str(<<"w", ":", "std_dev">>),
      Str(<<"h">>), Str(<<"w", ":">>) }

DsSample == Sample(<<>>, <<>>, <<Stat(Num(5, 2), Num(1, 1), Num(0, 1), Num(9, 1))>>)
NfnrSamples ==
    { Sample(<<>>, <<>>, <<Stat(Num(3, 2), Num(1, 4), Num(0, 1), Num(3, 1))>>),
      Sample(<<>>, <<>>, <<Stat(Num(7, 1), Num(123456, 1), Num(-5, 2), Num(8, 1))>>) }

NfnrResults ==
    {LintResult(<<w>>, <<DsSample, x>>) : w \in Identifiers, x \in NfnrSamples}
    \cup {LintResult(ws, <<DsSample>> \o xs) :
              ws \in SeqsUpTo(BasicIdentifiers, MaxWarnings),
              xs \in SeqsUpTo(NfnrSamples, MaxWarnings)}

NfnrInit ==
    /\ NoPformat
    /\ kind = "NonNormalNumericFeatureDetector"
    /\ result \in NfnrResults
    /\ suppress \in SUBSET {Str(<<"h">>), Str(<<"w">>),
                            Str(<<"h", ":", "mean", ",", "std_dev">>)}
    /\ max_width = MAX_WIDTH
    /\ lines = NotCalled

FormatWarningsNfnr ==
    /\ kind = "NonNormalNumericFeatureDetector"
    /\ lines = NotCalled
    /\ lines' = _format_warnings_nfnr(result, suppress, max_width)
    /\ UNCHANGED <<kind, result, suppress, max_width, pformatVars>>

NfnrNext == FormatWarningsNfnr

SpecNfnr == NfnrInit /\ [][NfnrNext]_vars

\* the indices of the warnings that are paired with a sample: warning i with
\* sample i + 1
Paired == 1..Min(Len(result.warnings), Len(result.lint_samples) - 1)

Colons(w) == Len(Split(w.v, ":")) - 1
FeatureOf(w) == Split(w.v, ":")[1]
SuffixOf(w) == Split(Split(w.v, ":")[2], ",")

\* 'feature:s1,...,sk' with every si a field of the statistics
Flagging(w) ==
    /\ Colons(w) = 1
    /\ \A k \in 1..Len(SuffixOf(w)) :
           SuffixOf(w)[k] \in {<<"mean">>, <<"std_dev">>, <<"min">>, <<"max">>}

\* the statistics a line of the formatter lists: the pairs of name and value
\* text of the 'name = value' items after ' had '
StatPairs(line) ==
    LET items == Split(Split(line, " had ")[2], ",")
    IN  [k \in 1..Len(items) |-> Split(LStrip(items[k], " "), " = ")]

\* the statistics the identifier w names with their values in sample
Expected(w, sample) ==
    [k \in 1..Len(SuffixOf(w)) |->
        LET value == sample.stats[1][SuffixOf(w)[k][1]]
        IN  <<SuffixOf(w)[k], SigFmt(value.n, value.d, 5)>>]

\* the lines of the warnings that are not Suppressed list the statistics of
\* their identifiers, each warning on the line of its rank among them
ListsFlagged(Suppressed(_)) ==
    \A i \in Paired :
        LET w == result.warnings[i]
            rank == Cardinality({j \in 1..i : ~Suppressed(result.warnings[j])})
        IN  (Flagging(w) /\ ~Suppressed(w))
                => /\ Len(lines.value) >= rank + 1
                   /\ EntryName(lines.value[rank + 1]) = FeatureOf(w)
                   /\ StatPairs(lines.value[rank + 1])
                          = Expected(w, result.lint_samples[i + 1])

IdentifierSuppressed(w) == w \in suppress
FeatureSuppressed(w) == Str(FeatureOf(w)) \in suppress

Malformed(w) ==
    \/ Colons(w) # 1
    \/ \E k \in 1..Len(SuffixOf(w)) : SuffixOf(w)[k] = <<>>

----------------------------------------------------------------------------
(* SpecDd: one call of the duplicate-example formatter.  The examples are  *)
(* drawn column by column: a column is one of the Profiles, which give the *)
(* length of its name and the feature of each example in it.  A table has  *)
(* up to MaxCols columns of any profile under one of DdWidths, or up to    *)
(* MaxWideCols columns of the wide profiles under MAX_WIDTH.               *)

Absent == [kind |-> "absent"]
Profiles == {"wide", "long", "sparse", "unset"}
WideProfiles == {"wide", "long"}
DdWidths == {MAX_WIDTH, 40, 25}

NameLenOf(profile) ==
    CASE profile = "wide" -> 3
      [] profile = "long" -> 17
      [] profile = "sparse" -> 1
      [] profile = "unset" -> 16

\* the feature of example j in a column of the profile
ProfileFeature(profile, j) ==
    CASE profile = "wide" -> Feature("bytes_list", 19)
      [] profile = "long" -> Feature("float_list", IF j % 2 = 1 THEN 25 ELSE 2)
      [] profile = "sparse" -> IF j % 2 = 1 THEN Absent ELSE Feature("int64_list", 0)
      [] profile = "unset" -> IF j = 1 THEN Feature("bytes_list", 4)
                              ELSE Feature("none", 0)

\* the n examples of the table whose k-th column has the profile profiles[k]
Examples(profiles, n) ==
    [j \in 1..n |->
        LET present == {k \in 1..Len(profiles) : ProfileFeature(profiles[k], j) # Absent}
        IN  Example([c \in {Name(k, NameLenOf(profiles[k])) : k \in present} |->
                        ProfileFeature(profiles[c.rank], j)])]

DdResult(profiles, n) ==
    LintResult(<<Str(<<"9">>)>>, <<DupSample(Examples(profiles, n))>>)

DdInit ==
    /\ NoPformat
    /\ kind = "DuplicateExampleDetector"
    /\ \/ /\ max_width \in DdWidths
          /\ \E profiles \in SeqsUpTo(Profiles, MaxCols), n \in 0..MaxEgs :
                 result = DdResult(profiles, n)
       \/ /\ max_width = MAX_WIDTH
          /\ \E profiles \in SeqsUpTo(WideProfiles, MaxWideCols) :
                 result = DdResult(profiles, 1)
    /\ suppress = {}
    /\ lines = NotCalled

FormatWarningsDd ==
    /\ kind = "DuplicateExampleDetector"
    /\ lines = NotCalled
    /\ lines' = _format_warnings_dd(result, suppress, max_width)
    /\ UNCHANGED <<kind, result, suppress, max_width, pformatVars>>

DdNext == FormatWarningsDd

SpecDd == DdInit /\ [][DdNext]_vars

\* the shown examples and the columns of the table, read off the result
Egs == result.lint_samples[1].examples
Cols == UNION {DOMAIN Egs[j].features : j \in 1..Len(Egs)}

\* the column groups of a table: its lines split at the blank lines
RECURSIVE GroupsAcc(_, _)
GroupsAcc(table, cur) ==
    IF table = <<>> THEN <<cur>>
    ELSE IF Head(table) = Blank THEN <<cur>> \o GroupsAcc(Tail(table), <<>>)
    ELSE GroupsAcc(Tail(table), Append(cur, Head(table)))

GroupsOf(table) == GroupsAcc(table, <<>>)

(* C2 as stated: when every cell value is shorter than 20 characters, no   *)
(* rendered line of any column group of the duplicate-example table is     *)
(* longer than max_width.                                                  *)
C2_LinesWithinMaxWidth ==
    (kind = "DuplicateExampleDetector" /\ Returned(lines)
     /\ \A j \in 1..Len(Egs) : \A c \in DOMAIN Egs[j].features :
            Egs[j].features[c].printed < DD_MAX_VAL_LEN)
        => \A l \in 1..Len(lines.value[2]) : lines.value[2][l].len <= max_width

\* the text the table shows for example j in column c
Shown(j, c) ==
    IF c \in DOMAIN Egs[j].features /\ Egs[j].features[c].kind # "none"
       /\ Egs[j].features[c].printed > 0
    THEN ValueText(Egs[j].features[c].printed,
                   Min(Egs[j].features[c].printed, DD_MAX_VAL_LEN))
    ELSE EmptyText

(* C3: every column group of the duplicate-example table has a rule, the   *)
(* heading, a rule, one data row per shown example in example order, and   *)
(* a closing rule; each data row has one cell for every column of the      *)
(* group, empty where the example lacks the feature; the groups hold every *)
(* column once.                                                            *)
C3_RowsPerGroup ==
    (kind = "DuplicateExampleDetector" /\ Returned(lines))
        => LET groups == GroupsOf(lines.value[2])
               n == Len(Egs)
               ColsOf(g) == [k \in 1..Len(groups[g][2].cells) |-> groups[g][2].cells[k].of]
           IN  /\ \A g \in 1..Len(groups) :
                      /\ Len(groups[g]) = n + 4
                      /\ \A l \in 1..(n + 4) : groups[g][l].rule <=> l \in {1, 3, n + 4}
                      /\ \A k \in 1..Len(ColsOf(g)) : ColsOf(g)[k] \in Cols
                      /\ \A j \in 1..n :
                             groups[g][3 + j].cells
                                 = [k \in 1..Len(ColsOf(g)) |-> Shown(j, ColsOf(g)[k])]
               /\ Sorted(Cols) = Concat([g \in 1..Len(groups) |-> ColsOf(g)])

C3_Witness ==
    /\ kind = "DuplicateExampleDetector"
    /\ Returned(lines)
    /\ Len(Egs) = 2
    /\ Len(GroupsOf(lines.value[2])) = 2
    /\ \E j \in 1..2 : \E c \in Cols : c \notin DOMAIN Egs[j].features
    /\ \A g \in 1..2 : Len(GroupsOf(lines.value[2])[g]) = 6

\* the text the table shows where a feature is absent, has no kind set or
\* has no values
MissingShownEmpty ==
    LET groups == GroupsOf(lines.value[2])
    IN  \A g \in 1..Len(groups) : \A j \in 1..Len(Egs) :
            /\ Len(groups[g]) >= 3 + j
            /\ \A k \in 1..Len(groups[g][2].cells) :
                   LET c == groups[g][2].cells[k].of
                   IN  (c \notin DOMAIN Egs[j].features
                        \/ Egs[j].features[c].kind = "none"
                        \/ Egs[j].features[c].printed = 0)
                           => /\ Len(groups[g][3 + j].cells) >= k
                              /\ groups[g][3 + j].cells[k] = EmptyText

(* C9 as stated: a sample without the values a formatter expects does not  *)
(* make it fail, and an empty string or cell stands in place of the        *)
(* values: after the ': ' of the generic and enumerated-value bullets, in  *)
(* the duplicate-example table, and for an empty nums list in the          *)
(* list-length-outlier and uncommon-sign formatters.                       *)
C9_EmptyRendered ==
    lines # NotCalled
        => /\ kind \in {"LintDetector", "EnumDetector"}
                  => /\ Returned(lines)
                     /\ \A j \in 1..Len(Kept) :
                            LET sample == result.lint_samples[Kept[j]]
                            IN  (sample.strings = <<>> /\ sample.nums = <<>>)
                                    => lines.value[j + 1]
                                           = LI_SAMP(result.warnings[Kept[j]].v, <<>>)
           /\ kind \in PctKinds
                  => ((\A j \in 1..Len(Kept) :
                           \/ result.lint_samples[Kept[j]].nums = <<>>
                           \/ (WellShaped(Kept[j]) /\ ~ZeroTotal(Kept[j])))
                          => Returned(lines))
           /\ kind = "DuplicateExampleDetector"
                  => (Returned(lines) /\ MissingShownEmpty)

============================================================================
